---- MODULE Spec2Model ----
(***************************************************************************)
(* gin-utils: option-configured transport server, route registration on    *)
(* the /api/v1 groups, generic bind-and-validate middleware with a context *)
(* stash, and the JSON response envelope.                                  *)
(*                                                                         *)
(* Strings that are joined or compared character-wise (paths, URIs) are    *)
(* sequences of one-character strings.  JSON values are records with a     *)
(* "kind" and a value "v".  A gin.Context is a record; the framework       *)
(* primitives the library calls (Next, Abort, JSON, Set, Get, Group, Use,  *)
(* route lookup) are operators on it.                                      *)
(***************************************************************************)
EXTENDS Integers, Sequences, FiniteSets, TLC

\* cfg, engine: the TransportServer's configuration and gin engine
\* phase: "new" after construction, "registered" after RegisterHandlers
\*        returned, "panicked" if it panicked
\* given: the route descriptors returned by the handlers that
\*        RegisterHandlers was called with
\* ctx:   the context of the request that was served (NoCtx before)
\* call:  the arguments of a direct call of a response function
\* options: the options NewTransportServer was called with
\* server: the TransportServer's server handle (nil or an http.Server)
\* mu:     the read/write lock guarding the handle
\* srvs:   the http.Server objects created so far
\* procs:  the calls of Start and Stop, each with its position and locals
VARIABLES cfg, engine, phase, given, ctx, call, options, server, mu, srvs, procs

vars == <<cfg, engine, phase, given, ctx, call, options, server, mu, srvs, procs>>

\* the state of Start and Stop
lifecycle == <<server, mu, srvs, procs>>

(***************************************************************************)
(* Bounds of the model.                                                    *)
(***************************************************************************)
\* routes returned by the handlers of one RegisterHandlers call
MaxRoutes == 2
\* length of a route's Middlewares list
MaxMiddlewares == 2
\* field errors in one validator.ValidationErrors
MaxFieldErrors == 3
\* options given to NewTransportServer
MaxOptions == 2
\* calls of Stop on one TransportServer
MaxStops == 1
\* connections with a request in flight on one http.Server
MaxConns == 1

(***************************************************************************)
(* HTTP status codes and methods used by the library.                      *)
(***************************************************************************)
StatusOK == 200
StatusNoContent == 204
StatusBadRequest == 400
StatusUnauthorized == 401
StatusForbidden == 403
StatusNotFound == 404
StatusUnprocessableEntity == 422
StatusInternalServerError == 500

MethodGet == "GET"
MethodPost == "POST"
MethodPut == "PUT"
MethodDelete == "DELETE"
MethodPatch == "PATCH"
MethodOptions == "OPTIONS"
MethodHead == "HEAD"

(***************************************************************************)
(* JSON values.                                                            *)
(***************************************************************************)
Nil == [kind |-> "nil"]
JStr(s) == [kind |-> "str", v |-> s]
JNum(n) == [kind |-> "num", v |-> n]
JArr(s) == [kind |-> "arr", v |-> s]
JObj(f) == [kind |-> "obj", v |-> f]
\* a body that is not JSON (the framework's plain-text 404)
JText(s) == [kind |-> "text", v |-> s]

(***************************************************************************)
(* gin.Context and its response writer.                                    *)
(***************************************************************************)
HeaderNames ==
    {"Access-Control-Allow-Origin", "Access-Control-Allow-Credentials",
     "Access-Control-Allow-Methods", "Access-Control-Allow-Headers",
     "X-Custom-CORS", "Location"}

\* nothing stashed under a key
Absent == [type |-> "absent", payload |-> ""]

\* the context the engine (or gin.CreateTestContext) hands out for a request
NewContext(req, handlers) ==
    [request  |-> req,
     handlers |-> handlers,
     index    |-> -1,
     status   |-> StatusOK,
     written  |-> FALSE,
     body     |-> <<>>,
     headers  |-> [h \in HeaderNames |-> ""],
     keys     |-> [requestKeyCtx |-> Absent, uriRequestKeyCtx |-> Absent],
     got      |-> Absent,
     log      |-> <<>>]

\* the value of ctx while no request has been served
NoCtx == [none |-> TRUE]

\* c.Writer.Header().Set: headers are frozen once the header is written
SetHeader(c, name, value) ==
    IF c.written THEN c ELSE [c EXCEPT !.headers[name] = value]

\* c.Status / ResponseWriter.WriteHeader: ignored once the response is written
Status(c, code) ==
    IF code > 0 /\ c.status # code /\ ~c.written
    THEN [c EXCEPT !.status = code]
    ELSE c

WriteHeaderNow(c) == [c EXCEPT !.written = TRUE]

\* statuses for which the framework renders no body
BodyAllowedForStatus(code) ==
    ~(code \in 100..199 \/ code = StatusNoContent \/ code = 304)

\* c.JSON(code, obj)
JSON(c, code, obj) ==
    LET c1 == Status(c, code)
    IN  IF BodyAllowedForStatus(code)
        THEN [c1 EXCEPT !.written = TRUE, !.body = Append(@, obj)]
        ELSE WriteHeaderNow(c1)

\* c.Abort(): the index jumps to the abort index
Abort(c) == [c EXCEPT !.index = 63]

IsAborted(c) == c.index >= 63

\* c.AbortWithStatus(code)
AbortWithStatus(c, code) == Abort(WriteHeaderNow(Status(c, code)))

\* c.AbortWithStatusJSON(code, obj)
AbortWithStatusJSON(c, code, obj) == JSON(Abort(c), code, obj)

\* c.Set(key, value)
Set(c, key, value) == [c EXCEPT !.keys[key] = value]

\* c.Get(key): the value and whether it exists
Get(c, key) == [v |-> c.keys[key], ok |-> c.keys[key] # Absent]

(***************************************************************************)
(* package response                                                        *)
(***************************************************************************)
\* type Envelope with its three fields; Nil is the Go nil
Envelope(data, error, meta) == [Data |-> data, Error |-> error, Meta |-> meta]

ErrorResponse(code, message) ==
    JObj([code |-> JNum(code), message |-> JStr(message)])

\* encoding of an Envelope: every field is tagged omitempty, so a nil field
\* is left out of the object
MarshalEnvelope(e) ==
    LET field == [data |-> e.Data, error |-> e.Error, meta |-> e.Meta]
        present == {k \in DOMAIN field : field[k] # Nil}
    IN  JObj([k \in present |-> field[k]])

\* mutant: OK passes its meta argument on, as WithMeta does
OK_KeepsMeta(c, data, meta) ==
    JSON(c, StatusOK, MarshalEnvelope(Envelope(data, Nil, meta)))

OK(c, data, meta) ==
    JSON(c, StatusOK, MarshalEnvelope(Envelope(data, Nil, Nil)))

WithMeta(c, data, meta) ==
    JSON(c, StatusOK, MarshalEnvelope(Envelope(data, Nil, meta)))

\* mutant: every negative code is answered 500
Fail_NegativeIs500(c, code, message) ==
    LET httpCode == IF code < 0
                    THEN StatusInternalServerError
                    ELSE StatusBadRequest
    IN  JSON(c, httpCode,
             MarshalEnvelope(Envelope(Nil, ErrorResponse(code, message), Nil)))

Fail(c, code, message) ==
    LET httpCode == IF code = -1
                    THEN StatusInternalServerError
                    ELSE StatusBadRequest
    IN  JSON(c, httpCode,
             MarshalEnvelope(Envelope(Nil, ErrorResponse(code, message), Nil)))

(***************************************************************************)
(* package middleware (errors.go)                                          *)
(***************************************************************************)
\* bind errors: none, validator.ValidationErrors with its field errors, or
\* any other error (malformed body)
NoError == [err |-> "none", fields |-> <<>>]
ValidationErrors(fields) == [err |-> "validation", fields |-> fields]
OtherError == [err |-> "other", fields |-> <<>>]

FieldError(field, tag) == [field |-> field, tag |-> tag]

\* mutant: no error is recognised as a validation error
IsValidationError_Never(err) == FALSE

\* errors.As(err, &ve)
IsValidationError(err) == err.err = "validation"

ValidationErrorResponse(fe) ==
    JObj([field |-> JStr(fe.field), message |-> JStr(fe.tag)])

\* mutant: the list is written without aborting the context
ValidatorErrorResponse_NoAbort(c, err) ==
    LET out == [i \in 1..Len(err.fields) |-> ValidationErrorResponse(err.fields[i])]
    IN  JSON(c, StatusUnprocessableEntity, JArr(out))

ValidatorErrorResponse(c, err) ==
    LET out == [i \in 1..Len(err.fields) |-> ValidationErrorResponse(err.fields[i])]
    IN  AbortWithStatusJSON(c, StatusUnprocessableEntity, JArr(out))

(***************************************************************************)
(* Requests and handler functions.                                         *)
(***************************************************************************)
\* an HTTP request as the library sees it: method, path, the two headers the
\* hooks read, and what binding its body / URI parameters yields
Request(method, path, token, role, bind, uri) ==
    [method |-> method, path |-> path, token |-> token, role |-> role,
     bind |-> bind, uri |-> uri, payload |-> "test@example.com"]

\* a gin.HandlerFunc: the function, its type parameter (generic functions)
\* and an identity that tells two closures of the same function apart
HandlerFunc(fn, t, id) == [fn |-> fn, t |-> t, id |-> id]

\* what c.ShouldBind / c.ShouldBindUri leave in `var req T`
Bound(t, req) == [type |-> t, payload |-> req.payload]

ShouldBind(c, t) == c.request.bind

ShouldBindUri(c, t) == c.request.uri

RECURSIVE Next(_)
RECURSIVE Invoke(_, _)
RECURSIVE Loop(_)

\* the loop of c.Next(): run the handlers from the current index on
Loop(c) ==
    IF c.index < Len(c.handlers)
    THEN Loop([Invoke(c.handlers[c.index + 1], c) EXCEPT !.index = @ + 1])
    ELSE c

\* c.Next()
Next(c) == Loop([c EXCEPT !.index = @ + 1])

(***************************************************************************)
(* package request                                                         *)
(***************************************************************************)
BindAndValidate(c, t) ==
    LET err == ShouldBind(c, t)
    IN  IF err # NoError
        THEN IF IsValidationError(err)
             THEN ValidatorErrorResponse(c, err)
             ELSE AbortWithStatusJSON(c, StatusBadRequest,
                      JObj([error |-> JObj([message |-> JStr("Invalid request data")])]))
        ELSE Next(Set(c, "requestKeyCtx", Bound(t, c.request)))

\* mutant: a URI validation error is answered like a body validation error
BindAndValidateURI_Validation422(c, t) ==
    LET err == ShouldBindUri(c, t)
    IN  IF err # NoError
        THEN IF IsValidationError(err)
             THEN ValidatorErrorResponse(c, err)
             ELSE AbortWithStatusJSON(c, StatusNotFound,
                      JObj([error |-> JStr("Not found")]))
        ELSE Next(Set(c, "uriRequestKeyCtx", Bound(t, c.request)))

BindAndValidateURI(c, t) ==
    LET err == ShouldBindUri(c, t)
    IN  IF err # NoError
        THEN AbortWithStatusJSON(c, StatusNotFound,
                 JObj([error |-> JStr("Not found")]))
        ELSE Next(Set(c, "uriRequestKeyCtx", Bound(t, c.request)))

\* mutant: GetRequest reads the key of the URI stash
GetRequest_UriKey(c, t) ==
    LET g == Get(c, "uriRequestKeyCtx")
    IN  IF ~g.ok
        THEN [c |-> AbortWithStatusJSON(c, StatusBadRequest,
                        JObj([error |-> JStr("Request not found")])),
              ret |-> Nil]
        ELSE IF g.v.type = t
             THEN [c |-> c, ret |-> g.v]
             ELSE [c |-> AbortWithStatusJSON(c, StatusBadRequest,
                             JObj([error |-> JStr("Invalid type of request")])),
                   ret |-> Nil]

\* GetRequest[T](c): the context afterwards and the pointer returned
GetRequest(c, t) ==
    LET g == Get(c, "requestKeyCtx")
    IN  IF ~g.ok
        THEN [c |-> AbortWithStatusJSON(c, StatusBadRequest,
                        JObj([error |-> JStr("Request not found")])),
              ret |-> Nil]
        ELSE IF g.v.type = t
             THEN [c |-> c, ret |-> g.v]
             ELSE [c |-> AbortWithStatusJSON(c, StatusBadRequest,
                             JObj([error |-> JStr("Invalid type of request")])),
                   ret |-> Nil]

\* mutant: GetUriRequest answers a missing stash as GetRequest does
GetUriRequest_Absent400(c, t) ==
    LET g == Get(c, "uriRequestKeyCtx")
    IN  IF ~g.ok
        THEN [c |-> AbortWithStatusJSON(c, StatusBadRequest,
                        JObj([error |-> JStr("Request not found")])),
              ret |-> Nil]
        ELSE IF g.v.type = t
             THEN [c |-> c, ret |-> g.v]
             ELSE [c |-> AbortWithStatusJSON(c, StatusBadRequest,
                             JObj([error |-> JStr("Invalid type of request")])),
                   ret |-> Nil]

GetUriRequest(c, t) ==
    LET g == Get(c, "uriRequestKeyCtx")
    IN  IF ~g.ok
        THEN [c |-> AbortWithStatusJSON(c, StatusNotFound,
                        JObj([error |-> JStr("Request not found")])),
              ret |-> Nil]
        ELSE IF g.v.type = t
             THEN [c |-> c, ret |-> g.v]
             ELSE [c |-> AbortWithStatusJSON(c, StatusBadRequest,
                             JObj([error |-> JStr("Invalid type of request")])),
                   ret |-> Nil]

(***************************************************************************)
(* The handler functions of the server and of its callers.                 *)
(***************************************************************************)
\* the built-in CORS middleware
corsMiddleware(c) ==
    LET c1 == SetHeader(c, "Access-Control-Allow-Origin", "*")
        c2 == SetHeader(c1, "Access-Control-Allow-Credentials", "true")
        c3 == SetHeader(c2, "Access-Control-Allow-Methods",
                        "GET,POST,PUT,DELETE,PATCH,HEAD,OPTIONS")
        c4 == SetHeader(c3, "Access-Control-Allow-Headers",
                        "Origin,Content-Type,Accept,Authorization,X-Requested-With")
    IN  IF c.request.method = MethodOptions
        THEN AbortWithStatus(c4, StatusNoContent)
        ELSE Next(c4)

\* a caller's CORS hook: sets its own header and continues
customCORS(c) == Next(SetHeader(c, "X-Custom-CORS", "enabled"))

\* mutant: the default hooks reject the request
defaultMiddleware_Rejects(c) == AbortWithStatus(c, StatusUnauthorized)

\* the default auth and permission hooks: continue the chain
defaultMiddleware(c) == Next(c)

\* a caller's auth hook: rejects a request without the valid token
authMiddleware(c) ==
    IF c.request.token # "valid-token"
    THEN AbortWithStatusJSON(c, StatusUnauthorized,
             JObj([error |-> JStr("unauthorized")]))
    ELSE Next(c)

\* a caller's permission hook: rejects a request whose role is not admin
permissionMiddleware(c) ==
    IF c.request.role # "admin"
    THEN AbortWithStatusJSON(c, StatusForbidden,
             JObj([error |-> JStr("forbidden")]))
    ELSE Next(c)

\* a route middleware that only continues the chain
middleware(c) == Next(c)

\* a route handler that answers 200
handler(c) == JSON(c, StatusOK, JObj([message |-> JStr("success")]))

\* a route handler that reads the stashed request and echoes it
getRequestHandler(c, t) ==
    LET r == GetRequest(c, t)
        c1 == [r.c EXCEPT !.got = r.ret]
    IN  IF r.ret = Nil
        THEN c1
        ELSE JSON(c1, StatusOK, JObj([email |-> JStr(r.ret.payload)]))

\* a route handler that reads the stashed URI request and echoes it
getUriRequestHandler(c, t) ==
    LET r == GetUriRequest(c, t)
        c1 == [r.c EXCEPT !.got = r.ret]
    IN  IF r.ret = Nil
        THEN c1
        ELSE JSON(c1, StatusOK, JObj([id |-> JStr(r.ret.payload)]))

\* mutant: the no-route handler answers 200
noRouteHandler_StatusOK(c) ==
    JSON(c, StatusOK, JObj([message |-> JStr("Not found")]))

\* the handler RegisterHandlers installs for unmatched requests
noRouteHandler(c) ==
    JSON(c, StatusNotFound, JObj([message |-> JStr("Not found")]))

\* calling a handler function of the chain; the call is logged with its
\* position in the chain
Invoke(h, c0) ==
    LET c == [c0 EXCEPT !.log = Append(@, [pos |-> c0.index + 1, h |-> h])]
    IN  CASE h.fn = "corsMiddleware" -> corsMiddleware(c)
          [] h.fn = "customCORS" -> customCORS(c)
          [] h.fn = "defaultAuth" -> defaultMiddleware(c)
          [] h.fn = "defaultPermission" -> defaultMiddleware(c)
          [] h.fn = "authMiddleware" -> authMiddleware(c)
          [] h.fn = "permissionMiddleware" -> permissionMiddleware(c)
          [] h.fn = "middleware" -> middleware(c)
          [] h.fn = "BindAndValidate" -> BindAndValidate(c, h.t)
          [] h.fn = "BindAndValidateURI" -> BindAndValidateURI(c, h.t)
          [] h.fn = "handler" -> handler(c)
          [] h.fn = "getRequestHandler" -> getRequestHandler(c, h.t)
          [] h.fn = "getUriRequestHandler" -> getUriRequestHandler(c, h.t)
          [] h.fn = "noRoute" -> noRouteHandler(c)

(***************************************************************************)
(* Configuration and its options.                                          *)
(***************************************************************************)
MODE_PROD == "prod"
MODE_DEV == "dev"
MODE_TEST == "test"

\* an Option is a function on the configuration; it is represented by the
\* field it assigns and the value it assigns
WithHost(host) == [set |-> "host", value |-> host]
WithPort(port) == [set |-> "port", value |-> port]
WithMode(mode) == [set |-> "mode", value |-> mode]
WithAuthMiddleware(m) == [set |-> "authMiddleware", value |-> m]
WithPermissionMiddleware(m) == [set |-> "permissionMiddleware", value |-> m]
WithCorsMiddleware(m) == [set |-> "corsMiddleware", value |-> m]

\* opt(c)
ApplyOption(c, opt) == [c EXCEPT ![opt.set] = opt.value]

RECURSIVE ApplyOptions_Reversed(_, _)
\* mutant: the options are applied from the last to the first
ApplyOptions_Reversed(c, opts) ==
    IF opts = <<>> THEN c
    ELSE ApplyOption(ApplyOptions_Reversed(c, Tail(opts)), Head(opts))

RECURSIVE ApplyOptions(_, _)
\* for _, opt := range opts { opt(c) }
ApplyOptions(c, opts) ==
    IF opts = <<>> THEN c
    ELSE ApplyOptions(ApplyOption(c, Head(opts)), Tail(opts))

DefaultCfg ==
    [host |-> "localhost",
     port |-> 8080,
     mode |-> MODE_PROD,
     authMiddleware |-> HandlerFunc("defaultAuth", "", 0),
     permissionMiddleware |-> HandlerFunc("defaultPermission", "", 0),
     corsMiddleware |-> HandlerFunc("corsMiddleware", "", 0)]

\* engine.Use(m) on the engine: appended to the global middlewares
EngineUse(e, m) == [e EXCEPT !.Handlers = Append(@, m)]

\* gin.New()
NewEngine == [Handlers |-> <<>>, noRoute |-> <<>>, trees |-> {}]

NewTransportServer(opts) ==
    LET c == ApplyOptions(DefaultCfg, opts)
    IN  [cfg |-> c, engine |-> EngineUse(NewEngine, c.corsMiddleware)]

(***************************************************************************)
(* Paths and route groups.                                                 *)
(***************************************************************************)
RECURSIVE Collapse(_)
\* runs of slashes become one slash
Collapse(p) ==
    IF Len(p) < 2 THEN p
    ELSE IF p[1] = "/" /\ p[2] = "/" THEN Collapse(Tail(p))
         ELSE <<p[1]>> \o Collapse(Tail(p))

\* path.Clean on paths without dot segments
Clean(p) ==
    LET q == Collapse(p)
    IN  IF Len(q) > 1 /\ q[Len(q)] = "/" THEN SubSeq(q, 1, Len(q) - 1) ELSE q

\* path.Join(a, b)
PathJoin(a, b) ==
    IF a = <<>> THEN Clean(b)
    ELSE IF b = <<>> THEN Clean(a)
         ELSE Clean(a \o <<"/">> \o b)

\* the framework's joinPaths(absolutePath, relativePath)
joinPaths(absolutePath, relativePath) ==
    IF relativePath = <<>> THEN absolutePath
    ELSE LET finalPath == PathJoin(absolutePath, relativePath)
         IN  IF relativePath[Len(relativePath)] = "/"
                /\ finalPath[Len(finalPath)] # "/"
             THEN finalPath \o <<"/">>
             ELSE finalPath

\* the string "/api/v1"
ApiV1 == <<"/", "a", "p", "i", "/", "v", "1">>

\* group.Group(relativePath): a new group with a copy of the handlers
Group(g, relativePath) ==
    [basePath |-> joinPaths(g.basePath, relativePath), Handlers |-> g.Handlers]

\* group.Use(m)
Use(g, m) == [g EXCEPT !.Handlers = Append(@, m)]

\* the engine's own root group
RootGroup(e) == [basePath |-> <<"/">>, Handlers |-> e.Handlers]

\* group.GET/POST/PUT/DELETE(relativePath, handlers...): the route is added
\* under the group's joined path with the group's handlers in front; adding
\* a method and path twice panics
Handle(st, g, httpMethod, relativePath, handlers) ==
    LET absolutePath == joinPaths(g.basePath, relativePath)
    IN  IF \E r \in st.trees : r.method = httpMethod /\ r.path = absolutePath
        THEN [st EXCEPT !.panic = TRUE]
        ELSE [st EXCEPT !.trees = @ \cup
                 {[method |-> httpMethod, path |-> absolutePath,
                   handlers |-> g.Handlers \o handlers]}]

(***************************************************************************)
(* Route registration.                                                     *)
(***************************************************************************)
\* type Route
Route(uri, method, h, isAuthProtected, middlewares) ==
    [Uri |-> uri, Method |-> method, Handler |-> h,
     IsAuthProtected |-> isAuthProtected, Middlewares |-> middlewares]

\* mutant: every route is registered on the auth-protected group
RegisterRoute_AllProtected(st, route, apiGroup, authProtectedGroup) ==
    LET handlersChain == route.Middlewares \o <<route.Handler>>
        g == authProtectedGroup
    IN  CASE route.Method = MethodGet ->
                Handle(st, g, MethodGet, route.Uri, handlersChain)
          [] route.Method = MethodPost ->
                Handle(st, g, MethodPost, route.Uri, handlersChain)
          [] route.Method = MethodPut ->
                Handle(st, g, MethodPut, route.Uri, handlersChain)
          [] route.Method = MethodDelete ->
                Handle(st, g, MethodDelete, route.Uri, handlersChain)
          [] OTHER -> st

\* mutant: the PUT branch registers the route with POST
RegisterRoute_PutAsPost(st, route, apiGroup, authProtectedGroup) ==
    LET handlersChain == route.Middlewares \o <<route.Handler>>
        g == IF route.IsAuthProtected THEN authProtectedGroup ELSE apiGroup
    IN  CASE route.Method = MethodGet ->
                Handle(st, g, MethodGet, route.Uri, handlersChain)
          [] route.Method = MethodPost ->
                Handle(st, g, MethodPost, route.Uri, handlersChain)
          [] route.Method = MethodPut ->
                Handle(st, g, MethodPost, route.Uri, handlersChain)
          [] route.Method = MethodDelete ->
                Handle(st, g, MethodDelete, route.Uri, handlersChain)
          [] OTHER -> st

\* mutant: the handler is put in front of the route's middlewares
RegisterRoute_HandlerFirst(st, route, apiGroup, authProtectedGroup) ==
    LET handlersChain == <<route.Handler>> \o route.Middlewares
        g == IF route.IsAuthProtected THEN authProtectedGroup ELSE apiGroup
    IN  CASE route.Method = MethodGet ->
                Handle(st, g, MethodGet, route.Uri, handlersChain)
          [] route.Method = MethodPost ->
                Handle(st, g, MethodPost, route.Uri, handlersChain)
          [] route.Method = MethodPut ->
                Handle(st, g, MethodPut, route.Uri, handlersChain)
          [] route.Method = MethodDelete ->
                Handle(st, g, MethodDelete, route.Uri, handlersChain)
          [] OTHER -> st

\* mutant: a route with any other method is registered with its method
RegisterRoute_AnyMethod(st, route, apiGroup, authProtectedGroup) ==
    LET handlersChain == route.Middlewares \o <<route.Handler>>
        g == IF route.IsAuthProtected THEN authProtectedGroup ELSE apiGroup
    IN  Handle(st, g, route.Method, route.Uri, handlersChain)

\* the body of the loop over routes
RegisterRoute(st, route, apiGroup, authProtectedGroup) ==
    LET handlersChain == route.Middlewares \o <<route.Handler>>
        g == IF route.IsAuthProtected THEN authProtectedGroup ELSE apiGroup
    IN  CASE route.Method = MethodGet ->
                Handle(st, g, MethodGet, route.Uri, handlersChain)
          [] route.Method = MethodPost ->
                Handle(st, g, MethodPost, route.Uri, handlersChain)
          [] route.Method = MethodPut ->
                Handle(st, g, MethodPut, route.Uri, handlersChain)
          [] route.Method = MethodDelete ->
                Handle(st, g, MethodDelete, route.Uri, handlersChain)
          [] OTHER -> st

RECURSIVE RegisterRoutes(_, _, _, _)
\* for _, route := range handler.GetRoutes(); a panic ends the registration
RegisterRoutes(st, routes, apiGroup, authProtectedGroup) ==
    IF routes = <<>> \/ st.panic THEN st
    ELSE RegisterRoutes(
             RegisterRoute(st, Head(routes), apiGroup, authProtectedGroup),
             Tail(routes), apiGroup, authProtectedGroup)

RECURSIVE RegisterAll(_, _, _, _)
\* for _, handler := range handlers; a handler is its GetRoutes() list
RegisterAll(st, handlers, apiGroup, authProtectedGroup) ==
    IF handlers = <<>> \/ st.panic THEN st
    ELSE RegisterAll(
             RegisterRoutes(st, Head(handlers), apiGroup, authProtectedGroup),
             Tail(handlers), apiGroup, authProtectedGroup)

\* the group of the unprotected routes
ApiGroup(e) == Group(RootGroup(e), ApiV1)

\* mutant: the permission hook is installed in front of the auth hook
AuthProtectedGroup_PermissionFirst(e, c) ==
    LET g0 == Group(ApiGroup(e), <<"/">>)
    IN  IF c.permissionMiddleware # Nil
        THEN Use(Use(g0, c.permissionMiddleware), c.authMiddleware)
        ELSE Use(g0, c.authMiddleware)

\* mutant: the auth hook is not installed on the protected group
AuthProtectedGroup_NoAuth(e, c) ==
    LET g0 == Group(ApiGroup(e), <<"/">>)
    IN  IF c.permissionMiddleware # Nil
        THEN Use(g0, c.permissionMiddleware)
        ELSE g0

\* the group of the auth-protected routes, with the hooks of the configuration
AuthProtectedGroup(e, c) ==
    LET g0 == Use(Group(ApiGroup(e), <<"/">>), c.authMiddleware)
    IN  IF c.permissionMiddleware # Nil
        THEN Use(g0, c.permissionMiddleware)
        ELSE g0

\* the engine after s.RegisterHandlers(handlers...), and whether it panicked
Registered(e, c, handlers) ==
    LET e1 == [e EXCEPT !.noRoute = <<HandlerFunc("noRoute", "", 0)>>]
        st == RegisterAll([trees |-> e1.trees, panic |-> FALSE], handlers,
                          ApiGroup(e1), AuthProtectedGroup(e1, c))
    IN  [engine |-> [e1 EXCEPT !.trees = st.trees], panic |-> st.panic]

(***************************************************************************)
(* Serving a request.                                                      *)
(***************************************************************************)
\* the route registered for the method and path, if any
Lookup(e, req) == {r \in e.trees : r.method = req.method /\ r.path = req.path}

\* the framework's trailing-slash recommendation: the path with a slash
\* added or removed is registered for the method
Tsr(e, req) ==
    LET p == req.path
    IN  /\ p # <<"/">>
        /\ \E r \in e.trees :
              /\ r.method = req.method
              /\ \/ r.path = p \o <<"/">>
                 \/ (p # <<>> /\ p[Len(p)] = "/" /\ r.path = SubSeq(p, 1, Len(p) - 1))

\* the framework's redirect to the path with the slash fixed
RedirectTrailingSlash(req) ==
    LET c == NewContext(req, <<>>)
        code == IF req.method = MethodGet THEN 301 ELSE 307
    IN  WriteHeaderNow(SetHeader(Status(c, code), "Location", "trailing-slash"))

\* the framework's serveError for an unmatched request: the global
\* middlewares and the no-route handlers run with status 404 preset, and the
\* plain-text 404 is written if they wrote nothing
ServeError(e, req) ==
    LET c0 == [NewContext(req, e.Handlers \o e.noRoute) EXCEPT !.status = StatusNotFound]
        c1 == Next(c0)
    IN  IF c1.written THEN c1
        ELSE IF c1.status = StatusNotFound
             THEN [c1 EXCEPT !.written = TRUE,
                             !.body = Append(@, JText("404 page not found"))]
             ELSE WriteHeaderNow(c1)

\* engine.ServeHTTP(w, req)
HandleHTTPRequest(e, req) ==
    LET found == Lookup(e, req)
    IN  IF found # {}
        THEN LET r == CHOOSE x \in found : TRUE
             IN  WriteHeaderNow(Next(NewContext(req, r.handlers)))
        ELSE IF Tsr(e, req)
             THEN RedirectTrailingSlash(req)
             ELSE ServeError(e, req)

(***************************************************************************)
(* Start and Stop: the server handle, its lock and the http.Server.        *)
(***************************************************************************)
\* error values returned by Start and Stop
Err(msg) == [kind |-> "error", v |-> msg]
ErrServerClosed == Err("http: Server closed")
ErrAddrInUse == Err("listen: address already in use")
DeadlineExceeded == Err("context deadline exceeded")

\* the calls: Start and Stop may each be called from several goroutines
StartCalls == {<<"Start", 1>>, <<"Start", 2>>}
StopCalls == {<<"Stop", i>> : i \in 1..MaxStops}
Calls == StartCalls \cup StopCalls

\* a call that has not been made: srv is its local variable, ctx the context
\* it was given, published whether the handle was set when it was made,
\* began the Start calls made before it, ret and at its result and the
\* statement that returned it
IdleCall ==
    [pc |-> "idle", srv |-> Nil, ctx |-> "none", expired |-> FALSE,
     published |-> FALSE, began |-> {}, ret |-> Nil, at |-> ""]

\* sync.RWMutex: the calls holding it for writing (at most one) and for
\* reading
NoLock == [writers |-> {}, readers |-> {}]

\* a pointer to the k-th http.Server
Ref(k) == [kind |-> "ptr", v |-> k]

\* &http.Server{...}: not shutting down, no listener, no connection
NewServer ==
    [inShutdown |-> FALSE, listener |-> "none", tracked |-> FALSE, active |-> 0]

\* the contexts Stop is called with: one that never expires, one with a
\* deadline still ahead, one whose deadline has passed
Contexts == {"background", "timeout", "expired"}

Return(p, err, stmt) ==
    [procs EXCEPT ![p].pc = "done", ![p].ret = err, ![p].at = stmt]

Goto(p, pc) == [procs EXCEPT ![p].pc = pc]

\* the address is bound by a listener of this process (port 0 asks for a
\* free port)
AddrInUse == cfg.port # 0 /\ \E k \in DOMAIN srvs : srvs[k].listener = "open"

\* a goroutine calls s.Start()
StartCall(p) ==
    /\ procs[p].pc = "idle"
    /\ procs' = Goto(p, "Lock")
    /\ UNCHANGED <<cfg, engine, phase, given, ctx, call, options, server, mu, srvs>>

\* s.mu.Lock()
StartLock(p) ==
    /\ procs[p].pc = "Lock"
    /\ mu = NoLock
    /\ mu' = [mu EXCEPT !.writers = {p}]
    /\ procs' = Goto(p, "publish")
    /\ UNCHANGED <<cfg, engine, phase, given, ctx, call, options, server, srvs>>

\* s.server = &http.Server{...}; srv := s.server
StartPublish(p) ==
    /\ procs[p].pc = "publish"
    /\ srvs' = Append(srvs, NewServer)
    /\ server' = Ref(Len(srvs) + 1)
    /\ procs' = [procs EXCEPT ![p].pc = "Unlock", ![p].srv = Ref(Len(srvs) + 1)]
    /\ UNCHANGED <<cfg, engine, phase, given, ctx, call, options, mu>>

\* s.mu.Unlock()
StartUnlock(p) ==
    /\ procs[p].pc = "Unlock"
    /\ mu' = [mu EXCEPT !.writers = {}]
    /\ procs' = Goto(p, "ListenAndServe")
    /\ UNCHANGED <<cfg, engine, phase, given, ctx, call, options, server, srvs>>

\* srv.ListenAndServe(): a server that is shutting down is not started
StartListenAndServe(p) ==
    /\ procs[p].pc = "ListenAndServe"
    /\ procs' = IF srvs[procs[p].srv.v].inShutdown
                THEN Return(p, ErrServerClosed, "ListenAndServe")
                ELSE Goto(p, "Listen")
    /\ UNCHANGED <<cfg, engine, phase, given, ctx, call, options, server, mu, srvs>>

\* net.Listen("tcp", addr) inside ListenAndServe
StartListen(p) ==
    /\ procs[p].pc = "Listen"
    /\ IF AddrInUse
       THEN /\ procs' = Return(p, ErrAddrInUse, "Listen")
            /\ UNCHANGED srvs
       ELSE /\ srvs' = [srvs EXCEPT ![procs[p].srv.v].listener = "open"]
            /\ procs' = Goto(p, "Serve")
    /\ UNCHANGED <<cfg, engine, phase, given, ctx, call, options, server, mu>>

\* srv.Serve(ln): the listener is tracked unless the server is shutting
\* down; then it is closed and Serve returns
StartServe(p) ==
    /\ procs[p].pc = "Serve"
    /\ LET k == procs[p].srv.v
       IN  IF srvs[k].inShutdown
           THEN /\ srvs' = [srvs EXCEPT ![k].listener = "closed"]
                /\ procs' = Return(p, ErrServerClosed, "Serve")
           ELSE /\ srvs' = [srvs EXCEPT ![k].tracked = TRUE]
                /\ procs' = Goto(p, "Accept")
    /\ UNCHANGED <<cfg, engine, phase, given, ctx, call, options, server, mu>>

\* the accept loop of Serve ends when the listener has been closed
StartAccept(p) ==
    /\ procs[p].pc = "Accept"
    /\ srvs[procs[p].srv.v].listener = "closed"
    /\ srvs' = [srvs EXCEPT ![procs[p].srv.v].tracked = FALSE]
    /\ procs' = Return(p, ErrServerClosed, "Accept")
    /\ UNCHANGED <<cfg, engine, phase, given, ctx, call, options, server, mu>>

\* a goroutine calls s.Stop(ctx); the calls are numbered in the order made
StopCall(p, c) ==
    /\ procs[p].pc = "idle"
    /\ \A q \in StopCalls : q[2] < p[2] => procs[q].pc # "idle"
    /\ procs' = [procs EXCEPT ![p].pc = "RLock", ![p].ctx = c,
                              ![p].expired = (c = "expired"),
                              ![p].published = (server # Nil),
                              ![p].began = {a \in StartCalls : procs[a].pc # "idle"}]
    /\ UNCHANGED <<cfg, engine, phase, given, ctx, call, options, server, mu, srvs>>

\* mutant: the read lock is taken while a writer holds the lock
StopRLock_IgnoresWriter(p) ==
    /\ procs[p].pc = "RLock"
    /\ mu' = [mu EXCEPT !.readers = @ \cup {p}]
    /\ procs' = Goto(p, "read")
    /\ UNCHANGED <<cfg, engine, phase, given, ctx, call, options, server, srvs>>

\* s.mu.RLock()
StopRLock(p) ==
    /\ procs[p].pc = "RLock"
    /\ mu.writers = {}
    /\ mu' = [mu EXCEPT !.readers = @ \cup {p}]
    /\ procs' = Goto(p, "read")
    /\ UNCHANGED <<cfg, engine, phase, given, ctx, call, options, server, srvs>>

\* srv := s.server
StopRead(p) ==
    /\ procs[p].pc = "read"
    /\ procs' = [procs EXCEPT ![p].pc = "RUnlock", ![p].srv = server]
    /\ UNCHANGED <<cfg, engine, phase, given, ctx, call, options, server, mu, srvs>>

\* s.mu.RUnlock()
StopRUnlock(p) ==
    /\ procs[p].pc = "RUnlock"
    /\ mu' = [mu EXCEPT !.readers = @ \ {p}]
    /\ procs' = Goto(p, "check")
    /\ UNCHANGED <<cfg, engine, phase, given, ctx, call, options, server, srvs>>

\* mutant: Stop returns nil without shutting the server down
StopCheck_NeverShutdown(p) ==
    /\ procs[p].pc = "check"
    /\ procs' = Return(p, Nil, "check")
    /\ UNCHANGED <<cfg, engine, phase, given, ctx, call, options, server, mu, srvs>>

\* mutant: Stop shuts the handle down without the nil check; Shutdown on a
\* nil server panics
StopCheck_NoNilCheck(p) ==
    /\ procs[p].pc = "check"
    /\ procs' = IF procs[p].srv = Nil
                THEN Return(p, Err("nil pointer dereference"), "Shutdown")
                ELSE Goto(p, "Shutdown")
    /\ UNCHANGED <<cfg, engine, phase, given, ctx, call, options, server, mu, srvs>>

\* if srv == nil { return nil }
StopCheck(p) ==
    /\ procs[p].pc = "check"
    /\ procs' = IF procs[p].srv = Nil
                THEN Return(p, Nil, "check")
                ELSE Goto(p, "Shutdown")
    /\ UNCHANGED <<cfg, engine, phase, given, ctx, call, options, server, mu, srvs>>

\* srv.Shutdown(ctx) begins: the server is marked as shutting down and the
\* tracked listener is closed
Shutdown(p) ==
    /\ procs[p].pc = "Shutdown"
    /\ LET k == procs[p].srv.v
       IN  srvs' = [srvs EXCEPT ![k].inShutdown = TRUE,
                                ![k].listener = IF srvs[k].tracked THEN "closed" ELSE @]
    /\ procs' = Goto(p, "Wait")
    /\ UNCHANGED <<cfg, engine, phase, given, ctx, call, options, server, mu>>

\* Shutdown waits for the Serve call of the listener to return
ShutdownWait(p) ==
    /\ procs[p].pc = "Wait"
    /\ ~srvs[procs[p].srv.v].tracked
    /\ procs' = Goto(p, "Poll")
    /\ UNCHANGED <<cfg, engine, phase, given, ctx, call, options, server, mu, srvs>>

\* Shutdown polls: it returns nil once no connection is active, and the
\* context's error if the context is done before that
ShutdownPoll(p) ==
    /\ procs[p].pc = "Poll"
    /\ srvs[procs[p].srv.v].active = 0 \/ procs[p].expired
    /\ procs' = IF srvs[procs[p].srv.v].active = 0
                THEN Return(p, Nil, "Shutdown")
                ELSE Return(p, DeadlineExceeded, "Shutdown")
    /\ UNCHANGED <<cfg, engine, phase, given, ctx, call, options, server, mu, srvs>>

\* the deadline of the context of a pending Stop passes
Expire(p) ==
    /\ procs[p].pc \notin {"idle", "done"}
    /\ procs[p].ctx = "timeout"
    /\ ~procs[p].expired
    /\ procs' = [procs EXCEPT ![p].expired = TRUE]
    /\ UNCHANGED <<cfg, engine, phase, given, ctx, call, options, server, mu, srvs>>

\* a client connects to a serving http.Server and sends a request
Connect(k) ==
    /\ srvs[k].listener = "open"
    /\ srvs[k].tracked
    /\ srvs[k].active < MaxConns
    /\ srvs' = [srvs EXCEPT ![k].active = @ + 1]
    /\ UNCHANGED <<cfg, engine, phase, given, ctx, call, options, server, mu, procs>>

\* the request of a connection has been answered
Finish(k) ==
    /\ srvs[k].active > 0
    /\ srvs' = [srvs EXCEPT ![k].active = @ - 1]
    /\ UNCHANGED <<cfg, engine, phase, given, ctx, call, options, server, mu, procs>>

(***************************************************************************)
(* Actions.                                                                *)
(***************************************************************************)
NoCall == [fn |-> "none"]

\* the state after NewTransportServer(opts...)
InitServer(opts) ==
    LET s == NewTransportServer(opts)
    IN  /\ cfg = s.cfg
        /\ engine = s.engine
        /\ phase = "new"
        /\ given = {}
        /\ ctx = NoCtx
        /\ call = NoCall
        /\ options = opts
        /\ server = Nil
        /\ mu = NoLock
        /\ srvs = <<>>
        /\ procs = [p \in Calls |-> IdleCall]

Range(s) == {s[i] : i \in DOMAIN s}

\* every route descriptor the handlers return
Routes(handlers) == UNION {Range(handlers[i]) : i \in DOMAIN handlers}

\* s.RegisterHandlers(handlers...) with handlers drawn from the inputs;
\* called once, before any request
RegisterHandlers(inputs) ==
    /\ phase = "new"
    /\ ctx = NoCtx
    /\ \E handlers \in inputs :
          /\ LET r == Registered(engine, cfg, handlers)
             IN  /\ engine' = r.engine
                 /\ phase' = IF r.panic THEN "panicked" ELSE "registered"
          /\ given' = Routes(handlers)
    /\ UNCHANGED <<cfg, ctx, call, options, lifecycle>>

\* s.engine.ServeHTTP(w, req) with req drawn from the requests
ServeHTTP(requests) ==
    /\ phase # "panicked"
    /\ ctx = NoCtx
    /\ \E req \in requests : ctx' = HandleHTTPRequest(engine, req)
    /\ UNCHANGED <<cfg, engine, phase, given, call, options, lifecycle>>

\* the context of gin.CreateTestContext, on which a function is called alone
TestContext ==
    NewContext(Request(MethodGet, <<"/">>, "", "", NoError, NoError), <<>>)

\* response.OK(c, data, meta) on a fresh context
CallOK(data, meta) ==
    /\ ctx = NoCtx
    /\ ctx' = OK(TestContext, data, meta)
    /\ call' = [fn |-> "OK", data |-> data, meta |-> meta, code |-> 0, message |-> ""]
    /\ UNCHANGED <<cfg, engine, phase, given, options, lifecycle>>

\* response.WithMeta(c, data, meta) on a fresh context
CallWithMeta(data, meta) ==
    /\ ctx = NoCtx
    /\ ctx' = WithMeta(TestContext, data, meta)
    /\ call' = [fn |-> "WithMeta", data |-> data, meta |-> meta, code |-> 0, message |-> ""]
    /\ UNCHANGED <<cfg, engine, phase, given, options, lifecycle>>

\* response.Fail(c, code, message) on a fresh context
CallFail(code, message) ==
    /\ ctx = NoCtx
    /\ ctx' = Fail(TestContext, code, message)
    /\ call' = [fn |-> "Fail", data |-> Nil, meta |-> Nil, code |-> code, message |-> message]
    /\ UNCHANGED <<cfg, engine, phase, given, options, lifecycle>>

\* middleware.ValidatorErrorResponse(c, err) on a fresh context
CallValidatorErrorResponse(err) ==
    /\ ctx = NoCtx
    /\ ctx' = ValidatorErrorResponse(TestContext, err)
    /\ call' = [fn |-> "ValidatorErrorResponse", err |-> err]
    /\ UNCHANGED <<cfg, engine, phase, given, options, lifecycle>>

(***************************************************************************)
(* Inputs.                                                                 *)
(***************************************************************************)
\* the sequences over S of length at most n
SeqsUpTo(S, n) == UNION {[1..k -> S] : k \in 0..n}

\* URIs of route descriptors: "", "/a", "a", "/a/"
Uris == {<<>>, <<"/", "a">>, <<"a">>, <<"/", "a", "/">>}

Methods == {MethodGet, MethodPost, MethodPut, MethodDelete, MethodPatch}

\* descriptors for the routing specification: every URI with GET, every
\* method with "/a", protected and unprotected; the protected routes and the
\* unprotected routes have a handler function each
RoutingDescriptors ==
    {Route(u, MethodGet, HandlerFunc("handler", "", IF a THEN 1 ELSE 0), a, <<>>) :
        u \in Uris, a \in BOOLEAN}
    \cup
    {Route(<<"/", "a">>, m, HandlerFunc("handler", "", IF a THEN 1 ELSE 0), a, <<>>) :
        m \in Methods, a \in BOOLEAN}

\* RegisterHandlers arguments: one handler returning up to MaxRoutes routes
RoutingHandlers == {<<rs>> : rs \in SeqsUpTo(RoutingDescriptors, MaxRoutes)}

\* request paths: "/api/v1" + Uri for every Uri, the joined path "/api/v1/"
\* and the bare Uri "/a"
RoutingPaths ==
    {ApiV1 \o u : u \in Uris} \cup {ApiV1 \o <<"/">>, <<"/", "a">>}

RoutingRequests ==
    {Request(m, p, t, "admin", NoError, NoError) :
        m \in Methods \cup {MethodOptions}, p \in RoutingPaths,
        t \in {"valid-token", ""}}

\* methods of route descriptors that RegisterHandlers has no case for: three
\* standard methods, the empty string and a lower-case method name
OtherMethods == {MethodPatch, MethodHead, MethodOptions, "", "get"}

\* descriptors with such a method, "/a" protected and unprotected, with a
\* handler and a middleware of their own, and two descriptors with a method
\* that is registered
OtherDescriptors ==
    {Route(<<"/", "a">>, m, HandlerFunc("handler", "", 2), a,
           <<HandlerFunc("middleware", "", 2)>>) :
        m \in OtherMethods, a \in BOOLEAN}
    \cup
    {Route(<<"/", "a">>, MethodGet, HandlerFunc("handler", "", 0), FALSE,
           <<HandlerFunc("middleware", "", 1)>>),
     Route(<<"/", "b">>, MethodPost, HandlerFunc("handler", "", 1), TRUE, <<>>)}

\* RegisterHandlers arguments: one handler returning up to MaxRoutes of these
\* descriptors, none of them twice
OtherHandlers ==
    {<<rs>> : rs \in {x \in SeqsUpTo(OtherDescriptors, MaxRoutes) :
                         \A i, j \in DOMAIN x : x[i] = x[j] => i = j}}

\* requests with every method to the paths of the descriptors
OtherRequests ==
    {Request(m, ApiV1 \o u, "valid-token", "admin", NoError, NoError) :
        m \in OtherMethods \cup {MethodGet, MethodPost},
        u \in {<<"/", "a">>, <<"/", "a", "/">>, <<"/", "b">>}}

\* no option, a caller's auth hook, or a caller's CORS hook
RoutingOptions ==
    {<<>>,
     <<WithAuthMiddleware(HandlerFunc("authMiddleware", "", 0))>>,
     <<WithCorsMiddleware(HandlerFunc("customCORS", "", 0))>>}

\* the type parameters of the generic functions
Types == {"TestRequest", "OtherRequest"}

\* route middlewares for the chain specification
ChainMiddlewares ==
    {HandlerFunc("middleware", "", 1), HandlerFunc("middleware", "", 2),
     HandlerFunc("authMiddleware", "", 3),
     HandlerFunc("BindAndValidateURI", "TestRequest", 0)}
    \cup {HandlerFunc("BindAndValidate", t, 0) : t \in Types}

\* route handlers for the chain specification; the URI stash is read with
\* the type it is bound with and with another type
ChainHandlerFuncs ==
    {HandlerFunc("handler", "", 0),
     HandlerFunc("getRequestHandler", "TestRequest", 0)}
    \cup {HandlerFunc("getUriRequestHandler", t, 0) : t \in Types}

\* descriptors for the chain specification: one POST route "/a" with every
\* middleware list of up to MaxMiddlewares elements and every handler
ChainDescriptors ==
    {Route(<<"/", "a">>, MethodPost, h, a, ms) :
        h \in ChainHandlerFuncs, a \in BOOLEAN,
        ms \in SeqsUpTo(ChainMiddlewares, MaxMiddlewares)}

ChainHandlers == {<<(<<d>>)>> : d \in ChainDescriptors}

BindOutcomes ==
    {NoError,
     ValidationErrors(<<FieldError("Email", "email"), FieldError("Password", "min")>>),
     OtherError}

UriOutcomes ==
    {NoError, ValidationErrors(<<FieldError("ID", "required")>>), OtherError}

ChainRequests ==
    {Request(MethodPost, ApiV1 \o <<"/", "a">>, t, r, b, u) :
        t \in {"valid-token", ""}, r \in {"admin", "user"},
        b \in BindOutcomes, u \in UriOutcomes}

ChainOptions ==
    {a \o p :
        a \in {<<>>, <<WithAuthMiddleware(HandlerFunc("authMiddleware", "", 0))>>},
        p \in {<<>>,
               <<WithPermissionMiddleware(HandlerFunc("permissionMiddleware", "", 0))>>,
               <<WithPermissionMiddleware(Nil)>>}}

\* options for the configuration specification: every With* function with
\* an ordinary value and with its empty or zero value (a hook that is
\* called cannot be nil, the permission hook can)
ConfigOptionValues ==
    <<WithHost("0.0.0.0"), WithHost(""), WithPort(3000), WithPort(0),
      WithMode(MODE_TEST), WithMode(""),
      WithAuthMiddleware(HandlerFunc("authMiddleware", "", 0)),
      WithPermissionMiddleware(HandlerFunc("permissionMiddleware", "", 0)),
      WithPermissionMiddleware(Nil),
      WithCorsMiddleware(HandlerFunc("customCORS", "", 0))>>

\* the option lists of up to MaxOptions of these options, each list given
\* by the places of its options
ConfigOptions == SeqsUpTo(DOMAIN ConfigOptionValues, MaxOptions)

\* the option list of the places ix
OptionsAt(ix) == [i \in DOMAIN ix |-> ConfigOptionValues[ix[i]]]

\* one handler with an auth-protected and an unprotected route
ConfigHandlers ==
    {<<(<<Route(<<"/", "a">>, MethodGet, HandlerFunc("handler", "", 1), TRUE, <<>>),
          Route(<<"/", "b">>, MethodGet, HandlerFunc("handler", "", 0), FALSE, <<>>)>>)>>}

\* requests for the two routes, with and without credentials
ConfigRequests ==
    {Request(MethodGet, ApiV1 \o <<"/", u>>, t[1], t[2], NoError, NoError) :
        u \in {"a", "b"}, t \in {<<"valid-token", "admin">>, <<"", "user">>}}

\* arguments of the response functions
DataValues ==
    {Nil, JStr(""), JStr("test data"), JNum(0), JArr(<<>>),
     JArr(<<JStr("item1"), JStr("item2")>>), JObj([key |-> JStr("value")])}

MetaValues ==
    {Nil, JStr(""), JStr("meta"), JNum(0), JArr(<<>>),
     JObj([page |-> JNum(1), total |-> JNum(10)]), JObj([count |-> JNum(5)])}

Codes == {-2, -1, 0, 1, 1001, 5000}

Messages == {"", "Invalid input"}

\* field errors of a validated struct, two of them for the same field
FieldErrors ==
    {FieldError("Email", "required"), FieldError("Email", "email"),
     FieldError("Age", "min")}

\* the validation errors given to ValidatorErrorResponse
ValidationErrorValues ==
    {ValidationErrors(fs) : fs \in SeqsUpTo(FieldErrors, MaxFieldErrors)}

(***************************************************************************)
(* Specifications.                                                         *)
(***************************************************************************)
\* routing: registration of route descriptors and dispatch of requests
Init == \E opts \in RoutingOptions : InitServer(opts)

Next1 ==
    \/ RegisterHandlers(RoutingHandlers)
    \/ ServeHTTP(RoutingRequests)

Spec == Init /\ [][Next1]_vars

\* descriptors with a method that RegisterHandlers does not register
NextOther ==
    \/ RegisterHandlers(OtherHandlers)
    \/ ServeHTTP(OtherRequests)

SpecOther == Init /\ [][NextOther]_vars

\* chains: one route with its middlewares behind the hooks
InitChain == \E opts \in ChainOptions : InitServer(opts)

NextChain ==
    \/ RegisterHandlers(ChainHandlers)
    \/ ServeHTTP(ChainRequests)

SpecChain == InitChain /\ [][NextChain]_vars

\* the response functions called alone
InitResponse == InitServer(<<>>)

\* configuration: a server built from any options, its routes and requests
InitConfig == \E ix \in ConfigOptions : InitServer(OptionsAt(ix))

NextConfig ==
    \/ RegisterHandlers(ConfigHandlers)
    \/ ServeHTTP(ConfigRequests)

SpecConfig == InitConfig /\ [][NextConfig]_vars

\* one Start and up to MaxStops Stop calls on a server
TheStart == <<"Start", 1>>

InitStartStop == InitServer(<<>>)

\* a step of Start
StartStep(p) ==
    \/ StartLock(p)
    \/ StartPublish(p)
    \/ StartUnlock(p)
    \/ StartListenAndServe(p)
    \/ StartListen(p)
    \/ StartServe(p)
    \/ StartAccept(p)

\* a step of Stop
StopStep(p) ==
    \/ StopRLock(p)
    \/ StopRead(p)
    \/ StopRUnlock(p)
    \/ StopCheck(p)
    \/ Shutdown(p)
    \/ ShutdownWait(p)
    \/ ShutdownPoll(p)

NextStartStop ==
    \/ StartCall(TheStart)
    \/ \E p \in StopCalls, c \in Contexts : StopCall(p, c)
    \/ \E p \in StartCalls : StartStep(p)
    \/ \E p \in StopCalls : StopStep(p)
    \/ \E p \in StopCalls : Expire(p)
    \/ \E k \in DOMAIN srvs : Connect(k)
    \/ \E k \in DOMAIN srvs : Finish(k)

\* the goroutines of the calls are scheduled fairly; nothing is assumed of
\* the clients and the deadlines
SpecStartStop ==
    /\ InitStartStop
    /\ [][NextStartStop]_vars
    /\ \A p \in StartCalls : WF_vars(StartStep(p))
    /\ \A p \in StopCalls : WF_vars(StopStep(p))

\* Start called from two goroutines and up to MaxStops Stop calls, on a
\* server with the default port or with port 0 (any free port); the Start
\* calls are numbered in the order made, no client connects
LifecycleOptions == {<<>>, <<WithPort(0)>>}

InitLifecycle == \E opts \in LifecycleOptions : InitServer(opts)

NextLifecycle ==
    \/ \E p \in StartCalls :
          /\ \A q \in StartCalls : q[2] < p[2] => procs[q].pc # "idle"
          /\ StartCall(p)
    \/ \E p \in StopCalls : StopCall(p, "background")
    \/ \E p \in StartCalls : StartStep(p)
    \/ \E p \in StopCalls : StopStep(p)

SpecLifecycle ==
    /\ InitLifecycle
    /\ [][NextLifecycle]_vars
    /\ \A p \in StartCalls : WF_vars(StartStep(p))
    /\ \A p \in StopCalls : WF_vars(StopStep(p))

NextResponse ==
    \/ \E d \in DataValues, m \in MetaValues : CallOK(d, m)
    \/ \E d \in DataValues, m \in MetaValues : CallWithMeta(d, m)
    \/ \E k \in Codes, msg \in Messages : CallFail(k, msg)
    \/ \E err \in ValidationErrorValues : CallValidatorErrorResponse(err)

SpecResponse == InitResponse /\ [][NextResponse]_vars

(***************************************************************************)
(* Vocabulary of the properties.                                           *)
(***************************************************************************)
Served == ctx # NoCtx

\* the methods RegisterHandlers registers
RoutedMethods == {MethodGet, MethodPost, MethodPut, MethodDelete}

\* the request asks for "/api/v1" + Uri with the descriptor's method
AsksFor(d, req) == req.method = d.Method /\ req.path = ApiV1 \o d.Uri

\* the handler function at the end of the served chain is the descriptor's
DispatchedTo(c, d) ==
    c.handlers # <<>> /\ c.handlers[Len(c.handlers)] = d.Handler

\* the descriptor's Handler was invoked as the last element of the chain
HandlerRan(c, d) ==
    \E i \in DOMAIN c.log :
        c.log[i].pos = Len(c.handlers) /\ c.log[i].h = d.Handler

\* the position of the chain element that aborted the request, 0 if none did
AbortedAt(c) ==
    IF IsAborted(c) /\ c.log # <<>> THEN c.log[Len(c.log)].pos ELSE 0

\* the request was aborted by (the last call of) handler function h
AbortedBy(c, h) == AbortedAt(c) > 0 /\ c.log[Len(c.log)].h = h

\* the chain position of the j-th listed middleware of the descriptor
MiddlewarePos(c, d, j) == Len(c.handlers) - 1 - Len(d.Middlewares) + j

\* how often the chain element at a position was invoked
TimesInvoked(c, pos) == Cardinality({i \in DOMAIN c.log : c.log[i].pos = pos})

\* the body was written by the library: by a response function called alone,
\* by the no-route handler, by a bind middleware, or by a failing
\* GetRequest / GetUriRequest
LibraryWrote(c) ==
    /\ c.body # <<>>
    /\ \/ call.fn \in {"OK", "WithMeta", "Fail"}
       \/ /\ c.log # <<>>
          /\ LET last == c.log[Len(c.log)].h
             IN  \/ last.fn \in {"noRoute", "BindAndValidate", "BindAndValidateURI"}
                 \/ /\ last.fn \in {"getRequestHandler", "getUriRequestHandler"}
                    /\ c.got = Nil

\* the JSON shape of type Envelope: an object with no other members than
\* data, error and meta, its error an object of code and message
EnvelopeShape(j) ==
    /\ j.kind = "obj"
    /\ DOMAIN j.v \subseteq {"data", "error", "meta"}
    /\ "error" \in DOMAIN j.v =>
          /\ j.v["error"].kind = "obj"
          /\ DOMAIN j.v["error"].v = {"code", "message"}

\* the only body of the response, when exactly one body was written
TheBody(c) == c.body[1]

(***************************************************************************)
(* C1: every call of OK, WithMeta or Fail writes an envelope with exactly  *)
(* one of data and error populated.  Refuted by OK(c, nil, nil), whose     *)
(* envelope has neither.                                                   *)
(***************************************************************************)
C1_ExactlyOneOfDataError ==
    call.fn \in {"OK", "WithMeta", "Fail"} =>
        /\ Len(ctx.body) = 1
        /\ ("data" \in DOMAIN TheBody(ctx).v) # ("error" \in DOMAIN TheBody(ctx).v)

(***************************************************************************)
(* C2: every response body the library writes has the envelope shape       *)
(* {data?, error?, meta?}.  Refuted by the no-route 404, whose body is     *)
(* {"message": "Not found"}.                                               *)
(***************************************************************************)
C2_UniformEnvelope ==
    (Served /\ LibraryWrote(ctx)) =>
        \A i \in DOMAIN ctx.body : EnvelopeShape(ctx.body[i])

(***************************************************************************)
(* C3: on a request matching an auth-protected route the configured auth   *)
(* middleware is invoked before the handler, the handler runs only if      *)
(* neither the auth nor the permission middleware aborted, and when one of *)
(* them aborts the response is the one it wrote.                           *)
(***************************************************************************)
C3_AuthBeforeHandler ==
    \A d \in given :
        (Served /\ d.IsAuthProtected /\ AsksFor(d, ctx.request)) =>
            LET authCalls == {i \in DOMAIN ctx.log : ctx.log[i].h = cfg.authMiddleware}
                handlerCalls == {i \in DOMAIN ctx.log : ctx.log[i].pos = Len(ctx.handlers)}
            IN  /\ DispatchedTo(ctx, d)
                /\ authCalls # {}
                /\ \A j \in handlerCalls : \E i \in authCalls : i < j
                /\ HandlerRan(ctx, d) =>
                      /\ ~AbortedBy(ctx, cfg.authMiddleware)
                      /\ ~AbortedBy(ctx, cfg.permissionMiddleware)
                /\ (AbortedBy(ctx, cfg.authMiddleware) \/ AbortedBy(ctx, cfg.permissionMiddleware)) =>
                      ~HandlerRan(ctx, d)
                /\ AbortedBy(ctx, cfg.authMiddleware) =>
                      /\ ctx.status = StatusUnauthorized
                      /\ ctx.body = <<JObj([error |-> JStr("unauthorized")])>>
                /\ AbortedBy(ctx, cfg.permissionMiddleware) =>
                      /\ ctx.status = StatusForbidden
                      /\ ctx.body = <<JObj([error |-> JStr("forbidden")])>>

\* a protected route was served to the end behind caller-supplied hooks
C3_Witness ==
    \E d \in given :
        /\ Served /\ d.IsAuthProtected /\ AsksFor(d, ctx.request)
        /\ cfg.authMiddleware.fn = "authMiddleware"
        /\ cfg.permissionMiddleware # Nil
        /\ cfg.permissionMiddleware.fn = "permissionMiddleware"
        /\ HandlerRan(ctx, d)

(***************************************************************************)
(* C4: a request matching a route registered with IsAuthProtected = false  *)
(* never invokes the configured auth or permission middleware, whatever    *)
(* protected routes are registered beside it.                              *)
(***************************************************************************)
\* the path a descriptor is registered under
RegisteredPath(d) ==
    joinPaths(IF d.IsAuthProtected THEN ApiV1 \o <<"/">> ELSE ApiV1, d.Uri)

Matches(d, req) ==
    /\ d.Method \in RoutedMethods
    /\ req.method = d.Method
    /\ req.path = RegisteredPath(d)

C4_UnprotectedSkipsHooks ==
    \A d \in given :
        (Served /\ phase = "registered" /\ ~d.IsAuthProtected /\ Matches(d, ctx.request)) =>
            /\ HandlerRan(ctx, d)
            /\ \A i \in DOMAIN ctx.log :
                  /\ ctx.log[i].h # cfg.authMiddleware
                  /\ ctx.log[i].h # cfg.permissionMiddleware

\* an unprotected route served on a server that also has a protected route
\* and a caller-supplied auth hook that would have rejected the request
C4_Witness ==
    \E d \in given, e \in given :
        /\ Served /\ phase = "registered"
        /\ ~d.IsAuthProtected /\ Matches(d, ctx.request)
        /\ e.IsAuthProtected /\ e.Method = d.Method
        /\ cfg.authMiddleware.fn = "authMiddleware"
        /\ ctx.request.token # "valid-token"
        /\ HandlerRan(ctx, d)

(***************************************************************************)
(* C5 as stated: after RegisterHandlers, for every descriptor with a       *)
(* routed method, a request with that method to "/api/v1" + Uri reaches    *)
(* the descriptor's Handler and gets the response it writes, and the Uri   *)
(* without the prefix does not reach the Handler.  Refuted by a Uri        *)
(* without its leading slash, by the empty Uri of a protected route and by *)
(* a hook that aborts.                                                     *)
(***************************************************************************)
\* the response of the route handler of the routing descriptors
HandlerResponse(c) ==
    c.status = StatusOK /\ c.body = <<JObj([message |-> JStr("success")])>>

C5_Original ==
    \A d \in given :
        (Served /\ phase = "registered" /\ d.Method \in RoutedMethods) =>
            /\ AsksFor(d, ctx.request) =>
                  HandlerRan(ctx, d) /\ HandlerResponse(ctx)
            /\ (ctx.request.method = d.Method /\ ctx.request.path = d.Uri) =>
                  ~HandlerRan(ctx, d)

(***************************************************************************)
(* C5 amended: the above for every descriptor whose Uri is a clean path    *)
(* starting with "/" (or is empty on an unprotected route): the request is *)
(* dispatched to the descriptor's chain, and its Handler runs and writes   *)
(* the response unless an earlier element of the chain aborted.            *)
(***************************************************************************)
\* a path that starts with a slash and has no empty segment inside
CleanUri(u) ==
    /\ u # <<>>
    /\ u[1] = "/"
    /\ \A i \in 1..(Len(u) - 1) : ~(u[i] = "/" /\ u[i + 1] = "/")

C5_Covered(d) == CleanUri(d.Uri) \/ (d.Uri = <<>> /\ ~d.IsAuthProtected)

C5_Dispatch ==
    \A d \in given :
        (Served /\ phase = "registered" /\ d.Method \in RoutedMethods) =>
            /\ (C5_Covered(d) /\ AsksFor(d, ctx.request)) =>
                  /\ DispatchedTo(ctx, d)
                  /\ d.IsAuthProtected <=>
                        (\E i \in DOMAIN ctx.handlers : ctx.handlers[i] = cfg.authMiddleware)
                  /\ HandlerRan(ctx, d) \/ AbortedAt(ctx) \in 1..(Len(ctx.handlers) - 1)
                  /\ HandlerRan(ctx, d) => HandlerResponse(ctx)
            /\ (ctx.request.method = d.Method /\ ctx.request.path = d.Uri) =>
                  ~HandlerRan(ctx, d)

\* a PUT route was requested under its prefixed path and answered
C5_Witness ==
    \E d \in given :
        /\ Served /\ phase = "registered"
        /\ d.Method = MethodPut /\ C5_Covered(d) /\ AsksFor(d, ctx.request)
        /\ HandlerRan(ctx, d) /\ HandlerResponse(ctx)

(***************************************************************************)
(* C6 as stated: each listed middleware of a route is invoked exactly once *)
(* per matching request, in list order and before the Handler; the Handler *)
(* is the last element of the chain and does not run if a listed           *)
(* middleware aborts.  Refuted by a list whose first middleware aborts:    *)
(* the second is never invoked.                                            *)
(***************************************************************************)
\* the calls are logged in the order of the chain positions
InChainOrder(c) ==
    \A i, j \in DOMAIN c.log : i < j => c.log[i].pos < c.log[j].pos

\* the j-th listed middleware sits at its place of the chain
ListedAt(c, d, j) ==
    /\ MiddlewarePos(c, d, j) \in DOMAIN c.handlers
    /\ c.handlers[MiddlewarePos(c, d, j)] = d.Middlewares[j]

\* a listed middleware aborted the request
ListedAborted(c, d) ==
    \E j \in DOMAIN d.Middlewares : AbortedAt(c) = MiddlewarePos(c, d, j)

C6_Original ==
    \A d \in given :
        (Served /\ phase = "registered" /\ AsksFor(d, ctx.request)) =>
            /\ DispatchedTo(ctx, d)
            /\ \A j \in DOMAIN d.Middlewares :
                  /\ ListedAt(ctx, d, j)
                  /\ TimesInvoked(ctx, MiddlewarePos(ctx, d, j)) = 1
            /\ InChainOrder(ctx)
            /\ ListedAborted(ctx, d) => ~HandlerRan(ctx, d)

(***************************************************************************)
(* C6 amended: each listed middleware is invoked at most once, and exactly *)
(* once when no earlier element of the chain (CORS, auth or permission     *)
(* hook, or an earlier listed middleware) aborted the request; the calls   *)
(* are in list order and before the Handler, which is the last element of  *)
(* the chain and does not run if a listed middleware aborts.               *)
(***************************************************************************)
C6_MiddlewareOrder ==
    \A d \in given :
        (Served /\ phase = "registered" /\ AsksFor(d, ctx.request)) =>
            /\ DispatchedTo(ctx, d)
            /\ \A j \in DOMAIN d.Middlewares :
                  LET pos == MiddlewarePos(ctx, d, j)
                      cut == AbortedAt(ctx) \in 1..(pos - 1)
                  IN  /\ ListedAt(ctx, d, j)
                      /\ TimesInvoked(ctx, pos) = IF cut THEN 0 ELSE 1
            /\ InChainOrder(ctx)
            /\ ListedAborted(ctx, d) => ~HandlerRan(ctx, d)

\* two different middlewares were listed and both ran, then the handler
C6_Witness ==
    \E d \in given :
        /\ Served /\ phase = "registered" /\ AsksFor(d, ctx.request)
        /\ Len(d.Middlewares) = 2
        /\ d.Middlewares[1] # d.Middlewares[2]
        /\ TimesInvoked(ctx, MiddlewarePos(ctx, d, 1)) = 1
        /\ TimesInvoked(ctx, MiddlewarePos(ctx, d, 2)) = 1
        /\ HandlerRan(ctx, d)

(***************************************************************************)
(* C7: Fail(c, code, message) answers 500 if and only if code = -1 and 400 *)
(* for every other code; the envelope's error carries exactly the code and *)
(* the message, and data and meta are absent.                              *)
(***************************************************************************)
C7_FailStatus ==
    call.fn = "Fail" =>
        /\ ctx.status = StatusInternalServerError <=> call.code = -1
        /\ call.code # -1 => ctx.status = StatusBadRequest
        /\ Len(ctx.body) = 1
        /\ TheBody(ctx).kind = "obj"
        /\ DOMAIN TheBody(ctx).v = {"error"}
        /\ TheBody(ctx).v["error"] =
              JObj([code |-> JNum(call.code), message |-> JStr(call.message)])

\* Fail was called with the code -1 and answered 500
C7_Witness ==
    /\ call.fn = "Fail"
    /\ call.code = -1
    /\ ctx.status = StatusInternalServerError

(***************************************************************************)
(* C8 as stated: OK and WithMeta answer 200 with the given data and no     *)
(* error, and the envelope carries meta if and only if the call is         *)
(* WithMeta.  Refuted by WithMeta with a nil meta, whose envelope has no   *)
(* meta.                                                                   *)
(***************************************************************************)
\* the member of a JSON object, Nil when it is absent
Member(j, k) == IF k \in DOMAIN j.v THEN j.v[k] ELSE Nil

C8_Original ==
    call.fn \in {"OK", "WithMeta"} =>
        /\ ctx.status = StatusOK
        /\ Len(ctx.body) = 1
        /\ TheBody(ctx).kind = "obj"
        /\ Member(TheBody(ctx), "data") = call.data
        /\ "error" \notin DOMAIN TheBody(ctx).v
        /\ "meta" \in DOMAIN TheBody(ctx).v <=> call.fn = "WithMeta"

(***************************************************************************)
(* C8 amended: OK and WithMeta answer 200 with the given data and no       *)
(* error; the envelope carries meta if and only if the call is WithMeta    *)
(* and the given meta is not nil, and then it is the given meta; a         *)
(* response of OK never contains meta.                                     *)
(***************************************************************************)
C8_OkWithMeta ==
    call.fn \in {"OK", "WithMeta"} =>
        /\ ctx.status = StatusOK
        /\ Len(ctx.body) = 1
        /\ TheBody(ctx).kind = "obj"
        /\ Member(TheBody(ctx), "data") = call.data
        /\ "error" \notin DOMAIN TheBody(ctx).v
        /\ "meta" \in DOMAIN TheBody(ctx).v <=>
              (call.fn = "WithMeta" /\ call.meta # Nil)
        /\ call.fn = "WithMeta" => Member(TheBody(ctx), "meta") = call.meta

\* OK was called with a meta argument that is not nil
C8_Witness ==
    /\ call.fn = "OK"
    /\ call.meta # Nil
    /\ call.data # Nil
    /\ "meta" \notin DOMAIN TheBody(ctx).v

(***************************************************************************)
(* C9: BindAndValidate has three outcomes: on success it stashes the bound *)
(* request and continues the chain without aborting; on a validation error *)
(* it aborts with 422; on any other bind error it aborts with 400; in both *)
(* failures nothing is stashed and no later handler runs.                  *)
(***************************************************************************)
\* the calls of BindAndValidate in the log
BindCalls(c) == {i \in DOMAIN c.log : c.log[i].h.fn = "BindAndValidate"}

C9_BindOutcomes ==
    Served =>
        \A i \in BindCalls(ctx) :
            LET err == ctx.request.bind
                failed == /\ i = Len(ctx.log)
                          /\ IsAborted(ctx)
                          /\ ctx.keys["requestKeyCtx"] = Absent
            IN  /\ err = NoError =>
                      /\ ctx.keys["requestKeyCtx"] \in {Bound(t, ctx.request) : t \in Types}
                      /\ i < Len(ctx.log)
                      /\ ctx.log[i + 1].pos = ctx.log[i].pos + 1
                      /\ ~AbortedBy(ctx, ctx.log[i].h)
                /\ err.err = "validation" =>
                      failed /\ ctx.status = StatusUnprocessableEntity
                /\ err.err = "other" =>
                      failed /\ ctx.status = StatusBadRequest

\* a validation error stopped the chain with 422
C9_Witness ==
    /\ Served
    /\ BindCalls(ctx) # {}
    /\ ctx.request.bind.err = "validation"
    /\ ctx.status = StatusUnprocessableEntity
    /\ IsAborted(ctx)

(***************************************************************************)
(* C10 as stated: whenever BindAndValidate[T] (BindAndValidateURI[T]) has  *)
(* succeeded earlier in the chain, GetRequest[T] (GetUriRequest[T]) called *)
(* by a later handler returns a non-nil pointer to the bound value and     *)
(* neither aborts nor writes.  Refuted by a chain that binds T and then    *)
(* another type: the stash holds the other type and GetRequest[T] aborts   *)
(* with 400.                                                               *)
(***************************************************************************)
\* the calls of bind function fn with type parameter t before log index i
BoundBefore(c, fn, t, i) ==
    {k \in 1..(i - 1) : c.log[k].h.fn = fn /\ c.log[k].h.t = t}

\* the calls of bind function fn, with any type parameter, before log index i
AnyBoundBefore(c, fn, i) == {k \in 1..(i - 1) : c.log[k].h.fn = fn}

\* what the echo handler of the stash writes for the value it got
EchoWritten(c, member) ==
    /\ c.status = StatusOK
    /\ Len(c.body) = 1
    /\ Member(TheBody(c), member) = JStr(c.request.payload)

C10_Original ==
    Served =>
        \A i \in DOMAIN ctx.log :
            /\ (/\ ctx.log[i].h.fn = "getRequestHandler"
                /\ BoundBefore(ctx, "BindAndValidate", ctx.log[i].h.t, i) # {}) =>
                   /\ ctx.got = Bound(ctx.log[i].h.t, ctx.request)
                   /\ ~IsAborted(ctx)
                   /\ EchoWritten(ctx, "email")
            /\ (/\ ctx.log[i].h.fn = "getUriRequestHandler"
                /\ BoundBefore(ctx, "BindAndValidateURI", ctx.log[i].h.t, i) # {}) =>
                   /\ ctx.got = Bound(ctx.log[i].h.t, ctx.request)
                   /\ ~IsAborted(ctx)
                   /\ EchoWritten(ctx, "id")

(***************************************************************************)
(* C10 amended: the round trip holds when the last BindAndValidate         *)
(* (BindAndValidateURI) that succeeded before the handler was the one for  *)
(* T: each kind of stash has one slot, owned by the last successful bind.  *)
(***************************************************************************)
\* the last of a non-empty set of log indices
Latest(S) == CHOOSE k \in S : \A m \in S : m <= k

C10_RoundTrip ==
    Served =>
        \A i \in DOMAIN ctx.log :
            /\ (/\ ctx.log[i].h.fn = "getRequestHandler"
                /\ AnyBoundBefore(ctx, "BindAndValidate", i) # {}
                /\ ctx.log[Latest(AnyBoundBefore(ctx, "BindAndValidate", i))].h.t
                      = ctx.log[i].h.t) =>
                   /\ ctx.got = Bound(ctx.log[i].h.t, ctx.request)
                   /\ ~IsAborted(ctx)
                   /\ EchoWritten(ctx, "email")
            /\ (/\ ctx.log[i].h.fn = "getUriRequestHandler"
                /\ AnyBoundBefore(ctx, "BindAndValidateURI", i) # {}
                /\ ctx.log[Latest(AnyBoundBefore(ctx, "BindAndValidateURI", i))].h.t
                      = ctx.log[i].h.t) =>
                   /\ ctx.got = Bound(ctx.log[i].h.t, ctx.request)
                   /\ ~IsAborted(ctx)
                   /\ EchoWritten(ctx, "id")

\* the request was bound as another type and then as T, and the handler got T
C10_Witness ==
    /\ Served
    /\ \E i \in DOMAIN ctx.log :
          /\ ctx.log[i].h.fn = "getRequestHandler"
          /\ BoundBefore(ctx, "BindAndValidate", "OtherRequest", i) # {}
          /\ ctx.got = Bound(ctx.log[i].h.t, ctx.request)
          /\ EchoWritten(ctx, "email")

(***************************************************************************)
(* C11: GetRequest[T] and GetUriRequest[T] return nil and abort whenever   *)
(* no usable value is stashed: with nothing under the key GetRequest       *)
(* aborts with 400 and GetUriRequest with 404; with a value of another     *)
(* type under the key both abort with 400.                                 *)
(***************************************************************************)
\* the handler that read the stash got nil and the request was aborted with
\* the status
GotNilAborted(c, code) ==
    /\ c.got = Nil
    /\ IsAborted(c)
    /\ c.status = code
    /\ c.written

\* a value is stashed under the key and its type is not t
OtherTypeStashed(c, key, t) ==
    c.keys[key] # Absent /\ c.keys[key].type # t

C11_NoUsableStash ==
    Served =>
        \A i \in DOMAIN ctx.log :
            LET h == ctx.log[i].h
            IN  /\ h.fn = "getRequestHandler" =>
                      /\ ctx.keys["requestKeyCtx"] = Absent =>
                            GotNilAborted(ctx, StatusBadRequest)
                      /\ OtherTypeStashed(ctx, "requestKeyCtx", h.t) =>
                            GotNilAborted(ctx, StatusBadRequest)
                /\ h.fn = "getUriRequestHandler" =>
                      /\ ctx.keys["uriRequestKeyCtx"] = Absent =>
                            GotNilAborted(ctx, StatusNotFound)
                      /\ OtherTypeStashed(ctx, "uriRequestKeyCtx", h.t) =>
                            GotNilAborted(ctx, StatusBadRequest)

\* GetUriRequest found nothing stashed and answered 404
C11_Witness ==
    /\ Served
    /\ \E i \in DOMAIN ctx.log : ctx.log[i].h.fn = "getUriRequestHandler"
    /\ ctx.keys["uriRequestKeyCtx"] = Absent
    /\ GotNilAborted(ctx, StatusNotFound)

(***************************************************************************)
(* C12: BindAndValidateURI aborts with 404 on every URI bind error,        *)
(* validation errors included, stashing nothing and running no later       *)
(* handler; on success it stashes the bound value under the URI key and    *)
(* continues the chain without aborting.                                   *)
(***************************************************************************)
\* the calls of BindAndValidateURI in the log
BindUriCalls(c) == {i \in DOMAIN c.log : c.log[i].h.fn = "BindAndValidateURI"}

C12_BindUriOutcomes ==
    Served =>
        \A i \in BindUriCalls(ctx) :
            LET err == ctx.request.uri
            IN  /\ err = NoError =>
                      /\ ctx.keys["uriRequestKeyCtx"] \in {Bound(t, ctx.request) : t \in Types}
                      /\ i < Len(ctx.log)
                      /\ ctx.log[i + 1].pos = ctx.log[i].pos + 1
                      /\ ~AbortedBy(ctx, ctx.log[i].h)
                /\ err # NoError =>
                      /\ i = Len(ctx.log)
                      /\ IsAborted(ctx)
                      /\ ctx.keys["uriRequestKeyCtx"] = Absent
                      /\ ctx.status = StatusNotFound
                      /\ ctx.status \notin {StatusUnprocessableEntity, StatusBadRequest}

\* a URI validation error stopped the chain with 404
C12_Witness ==
    /\ Served
    /\ BindUriCalls(ctx) # {}
    /\ ctx.request.uri.err = "validation"
    /\ ctx.status = StatusNotFound
    /\ IsAborted(ctx)

(***************************************************************************)
(* C13: with the default CORS middleware every request handled by the      *)
(* engine, matched or not, gets Access-Control-Allow-Origin "*" and a      *)
(* non-empty Access-Control-Allow-Methods, and every OPTIONS request is    *)
(* answered 204 and aborted there, so that nothing but the CORS middleware *)
(* runs for it.  Refuted by a request the framework redirects to the path  *)
(* with the trailing slash fixed: no middleware runs for it and the        *)
(* redirect carries no CORS header.                                        *)
(***************************************************************************)
\* the engine handled a request
Handled == Served /\ call = NoCall

\* the handler functions invoked for the request, in order
Invoked(c) == [i \in DOMAIN c.log |-> c.log[i].h]

C13_DefaultCors ==
    (Handled /\ cfg.corsMiddleware = DefaultCfg.corsMiddleware) =>
        /\ ctx.headers["Access-Control-Allow-Origin"] = "*"
        /\ ctx.headers["Access-Control-Allow-Methods"] # ""
        /\ ctx.request.method = MethodOptions =>
              /\ ctx.status = StatusNoContent
              /\ IsAborted(ctx)
              /\ Invoked(ctx) = <<cfg.corsMiddleware>>

(***************************************************************************)
(* C14 as stated: after RegisterHandlers, every request that is not        *)
(* OPTIONS and matches no registered method and path is answered 404 and   *)
(* no route handler runs.  Refuted by a request whose path is a registered *)
(* path plus or minus a trailing slash: it is answered with a redirect.    *)
(***************************************************************************)
\* a handler of a given route descriptor was invoked
RouteHandlerRan(c) ==
    \E d \in given, i \in DOMAIN c.log : c.log[i].h = d.Handler

\* the request matches none of the routes registered from the descriptors
Unmatched(req) == \A d \in given : ~Matches(d, req)

SlashVariant(p, q) == p = q \o <<"/">> \/ q = p \o <<"/">>

\* a route is registered for the method under the path with the slash fixed
SlashRedirected(req) ==
    /\ req.path # <<"/">>
    /\ \E d \in given :
          /\ d.Method \in RoutedMethods
          /\ d.Method = req.method
          /\ SlashVariant(req.path, RegisteredPath(d))

BuiltInCorsHeaders ==
    {"Access-Control-Allow-Origin", "Access-Control-Allow-Credentials",
     "Access-Control-Allow-Methods", "Access-Control-Allow-Headers"}

\* the built-in CORS middleware is neither in the engine nor in the chain
BuiltInCorsAbsent(c) ==
    /\ \A i \in DOMAIN engine.Handlers : engine.Handlers[i] # DefaultCfg.corsMiddleware
    /\ \A i \in DOMAIN c.handlers : c.handlers[i] # DefaultCfg.corsMiddleware
    /\ \A h \in BuiltInCorsHeaders : c.headers[h] = ""

C19_CustomCors ==
    (Handled /\ cfg.corsMiddleware # DefaultCfg.corsMiddleware) =>
        /\ ctx.log # <<>>
        /\ ctx.log[1] = [pos |-> 1, h |-> cfg.corsMiddleware]
        /\ ctx.headers["X-Custom-CORS"] = "enabled"
        /\ BuiltInCorsAbsent(ctx)
        /\ ctx.request.method = MethodOptions =>
              /\ ctx.status # StatusNoContent
              /\ ~IsAborted(ctx)

(***************************************************************************)
(* C15: Stop on a TransportServer on which Start was never called returns  *)
(* nil, shuts nothing down and leaves the server handle nil.               *)
(***************************************************************************)
NeverStarted == \A a \in StartCalls : procs[a].pc = "idle"

Returned(p) == procs[p].pc = "done"

C15_StopWithoutStart ==
    \A p \in StopCalls :
        (NeverStarted /\ Returned(p)) =>
            /\ procs[p].ret = Nil
            /\ procs[p].at = "check"
            /\ \A k \in DOMAIN srvs : ~srvs[k].inShutdown
            /\ server = Nil

\* every Stop call has returned and Start has not been called
C15_Witness ==
    /\ NeverStarted
    /\ \A p \in StopCalls : Returned(p) /\ procs[p].ret = Nil
    /\ server = Nil

(***************************************************************************)
(* C16 as stated: if Stop is called with an unexpired context after Start  *)
(* has published the server handle, Stop returns without error and the     *)
(* pending Start call eventually returns, with no error or the             *)
(* server-closed error and never another one, also when Stop runs before   *)
(* Start has begun listening.  Refuted by a context whose deadline passes  *)
(* while a request is in flight: Stop returns the context's error.         *)
(***************************************************************************)
\* Stop was called with an unexpired context after the handle was published
StoppedAfterPublish(p) ==
    procs[p].pc # "idle" /\ procs[p].published /\ procs[p].ctx # "expired"

\* the Start call returned nil or the server-closed error
StartReturnedClosed(a) ==
    Returned(a) => procs[a].ret \in {Nil, ErrServerClosed}

ContinuedBy(c, h) ==
    \A i \in DOMAIN c.log :
        c.log[i].h = h =>
            /\ i < Len(c.log)
            /\ c.log[i + 1].pos = c.log[i].pos + 1
            /\ AbortedAt(c) # c.log[i].pos

C17_Defaults ==
    options = <<>> =>
        /\ cfg.host = "localhost"
        /\ cfg.port = 8080
        /\ cfg.mode = "prod"
        /\ cfg.authMiddleware # Nil
        /\ cfg.permissionMiddleware # Nil
        /\ cfg.corsMiddleware # Nil
        /\ engine.Handlers = <<cfg.corsMiddleware>>
        /\ Served =>
              /\ ctx.headers["Access-Control-Allow-Origin"] = "*"
              /\ ContinuedBy(ctx, cfg.authMiddleware)
              /\ ContinuedBy(ctx, cfg.permissionMiddleware)
              /\ \A d \in given :
                    (d.IsAuthProtected /\ Matches(d, ctx.request)) =>
                        /\ \E i \in DOMAIN ctx.log : ctx.log[i].h = cfg.authMiddleware
                        /\ \E i \in DOMAIN ctx.log : ctx.log[i].h = cfg.permissionMiddleware
                        /\ HandlerRan(ctx, d)
                        /\ HandlerResponse(ctx)

\* a request without credentials reached the handler of a protected route
\* of a server built without options
C17_Witness ==
    /\ options = <<>>
    /\ Served
    /\ ctx.request.token = ""
    /\ ctx.request.role = "user"
    /\ \E d \in given :
          d.IsAuthProtected /\ Matches(d, ctx.request) /\ HandlerRan(ctx, d)

(***************************************************************************)
(* C18: the options are applied in argument order; each With* option sets  *)
(* exactly its own field to the given value, empty and zero values         *)
(* included, and leaves the other fields unchanged: the final value of a   *)
(* field is the one given by the last option for that field, or the        *)
(* default if there is none.                                               *)
(***************************************************************************)
\* option o is the With* function of field f applied to its value
OptionFor(o, f) ==
    CASE f = "host" -> o = WithHost(o.value)
      [] f = "port" -> o = WithPort(o.value)
      [] f = "mode" -> o = WithMode(o.value)
      [] f = "authMiddleware" -> o = WithAuthMiddleware(o.value)
      [] f = "permissionMiddleware" -> o = WithPermissionMiddleware(o.value)
      [] f = "corsMiddleware" -> o = WithCorsMiddleware(o.value)

\* the places of the options for field f among the options given
GivenFor(f) == {i \in DOMAIN options : OptionFor(options[i], f)}

CfgFields ==
    {"host", "port", "mode", "authMiddleware", "permissionMiddleware",
     "corsMiddleware"}

C18_LastOptionWins ==
    /\ DOMAIN cfg = CfgFields
    /\ \A f \in CfgFields :
          IF GivenFor(f) = {}
          THEN cfg[f] = DefaultCfg[f]
          ELSE cfg[f] = options[Latest(GivenFor(f))].value

\* two options for the port were given, the second with the zero value
C18_Witness ==
    /\ Len(options) = 2
    /\ OptionFor(options[1], "port") /\ options[1].value = 3000
    /\ OptionFor(options[2], "port") /\ options[2].value = 0
    /\ cfg.port = 0
    /\ cfg.host = "localhost"

(***************************************************************************)
(* C20: ValidatorErrorResponse aborts the request with status 422 and a    *)
(* JSON list holding exactly one entry per field error of the validation   *)
(* errors given, in the same order, the entry's field being the name of    *)
(* the failing field and its message the failed validation tag; the        *)
(* context is aborted afterwards.                                          *)
(***************************************************************************)
C20_ValidatorErrorResponse ==
    call.fn = "ValidatorErrorResponse" =>
        LET fields == call.err.fields
        IN  /\ ctx.status = StatusUnprocessableEntity
            /\ ctx.written
            /\ Len(ctx.body) = 1
            /\ TheBody(ctx).kind = "arr"
            /\ Len(TheBody(ctx).v) = Len(fields)
            /\ \A i \in DOMAIN fields :
                  LET entry == TheBody(ctx).v[i]
                  IN  /\ entry.kind = "obj"
                      /\ DOMAIN entry.v = {"field", "message"}
                      /\ entry.v["field"] = JStr(fields[i].field)
                      /\ entry.v["message"] = JStr(fields[i].tag)
            /\ IsAborted(ctx)

\* the validation errors held three field errors, the first two of them for
\* the same field
C20_Witness ==
    /\ call.fn = "ValidatorErrorResponse"
    /\ Len(call.err.fields) = 3
    /\ call.err.fields[1].field = call.err.fields[2].field
    /\ call.err.fields[1].tag # call.err.fields[2].tag
    /\ Len(TheBody(ctx).v) = 3
    /\ IsAborted(ctx)

(***************************************************************************)
(* C21: the server handle is guarded by the read/write lock.  Start writes *)
(* it only while holding the write lock and Stop reads it only while       *)
(* holding the read lock, a writer excluding every other holder, so that   *)
(* in every interleaving of concurrent Start and Stop calls Stop observes  *)
(* a nil handle (and then returns nil without shutting anything down) or a *)
(* fully constructed server; neither call holds the lock while listening   *)
(* or shutting down, and no call waits for the lock forever.               *)
(***************************************************************************)
\* the positions at which Start holds the write lock, Stop the read lock
WriteLocked == {"publish", "Unlock"}
ReadLocked == {"read", "RUnlock"}

\* the positions of Stop after it read the handle
AfterRead == {"RUnlock", "check", "Shutdown", "Wait", "Poll", "done"}

\* at most one writer, and no reader beside it
Exclusive ==
    /\ Cardinality(mu.writers) <= 1
    /\ mu.writers # {} => mu.readers = {}

\* the lock is held at the positions between Lock and Unlock, and at no other
HeldWhereTaken ==
    /\ \A a \in StartCalls : a \in mu.writers <=> procs[a].pc \in WriteLocked
    /\ \A p \in StopCalls : p \in mu.readers <=> procs[p].pc \in ReadLocked
    /\ mu.writers \subseteq StartCalls
    /\ mu.readers \subseteq StopCalls

\* what Stop read is nil or one of the servers constructed
ObservedWhole ==
    \A p \in StopCalls :
        procs[p].pc \in AfterRead =>
            \/ procs[p].srv = Nil
            \/ procs[p].srv \in {Ref(k) : k \in DOMAIN srvs}

\* a Stop that read nil shuts nothing down and returns nil
NilObservedReturnsNil ==
    \A p \in StopCalls :
        procs[p].srv = Nil =>
            /\ procs[p].pc \notin {"Shutdown", "Wait", "Poll"}
            /\ Returned(p) => procs[p].ret = Nil /\ procs[p].at = "check"

\* the handle changes only in a step of the call holding the write lock
WrittenUnderLock ==
    server' # server =>
        \E a \in StartCalls :
            /\ mu.writers = {a}
            /\ mu'.writers = {a}
            /\ procs[a].pc = "publish"
            /\ mu.readers = {}

C21_LockGuard ==
    /\ [](Exclusive /\ HeldWhereTaken /\ ObservedWhole /\ NilObservedReturnsNil)
    /\ [][WrittenUnderLock]_vars
    /\ <>[](\A p \in Calls : procs[p].pc \notin {"Lock", "RLock"})

\* a Stop holding the read lock has read the server published by one Start
\* while the other Start waits for the write lock
C21_Witness ==
    \E p \in StopCalls, a \in StartCalls, b \in StartCalls :
        /\ procs[p].pc = "RUnlock"
        /\ p \in mu.readers
        /\ procs[p].srv = server
        /\ server # Nil
        /\ procs[a].pc = "Lock"
        /\ procs[b].pc \in {"ListenAndServe", "Listen", "Serve", "Accept"}

(***************************************************************************)
(* C22: after any sequence of Start and Stop calls on one TransportServer, *)
(* sequential or concurrent, once a Stop call has returned nil no          *)
(* http.Server created by a Start that began before that Stop is still     *)
(* serving, also when Start was called more than once before Stop and when *)
(* Stop ran concurrently with a Start that had not yet published the       *)
(* handle.  Refuted in both of these cases: Stop shuts down only the       *)
(* server it read from the handle.                                         *)
(***************************************************************************)
\* the http.Server created by Start call a accepts connections or has a
\* request in flight
Serving(a) ==
    /\ procs[a].srv # Nil
    /\ LET k == procs[a].srv.v
       IN  \/ srvs[k].listener = "open" /\ srvs[k].tracked
           \/ srvs[k].active > 0

C22_StoppedMeansStopped ==
    \A p \in StopCalls :
        (Returned(p) /\ procs[p].ret = Nil) =>
            \A a \in procs[p].began : ~Serving(a)

(***************************************************************************)
(* C23: for a request to an auth-protected route the chain order is fixed: *)
(* CORS middleware, auth middleware, permission middleware (when one is    *)
(* configured), the route's own middlewares in list order, the handler.    *)
(* The elements are invoked in that order, the permission middleware only  *)
(* after the auth middleware has continued the chain, and the first        *)
(* element that aborts prevents every later element from running.          *)
(***************************************************************************)
\* the chain RegisterHandlers builds for an auth-protected descriptor
ProtectedChain(d) ==
    <<cfg.corsMiddleware, cfg.authMiddleware>>
        \o (IF cfg.permissionMiddleware # Nil
            THEN <<cfg.permissionMiddleware>> ELSE <<>>)
        \o d.Middlewares \o <<d.Handler>>

\* the handler function aborts the request: the hooks reject a missing
\* token and a role other than admin, the bind middlewares a failed bind
Rejects(h, req) ==
    CASE h.fn = "authMiddleware" -> req.token # "valid-token"
      [] h.fn = "permissionMiddleware" -> req.role # "admin"
      [] h.fn = "BindAndValidate" -> req.bind # NoError
      [] h.fn = "BindAndValidateURI" -> req.uri # NoError
      [] OTHER -> FALSE

\* the place of the first element of the chain that aborts the request, the
\* last place of the chain if none does
FirstRejecting(chain, req) ==
    LET rejecting == {i \in DOMAIN chain : Rejects(chain[i], req)}
    IN  IF rejecting = {} THEN Len(chain)
        ELSE CHOOSE i \in rejecting : \A j \in rejecting : i <= j

C23_ChainOrder ==
    \A d \in given :
        (Served /\ d.IsAuthProtected /\ Matches(d, ctx.request)) =>
            LET chain == ProtectedChain(d)
                ran == FirstRejecting(chain, ctx.request)
                permissionAt == {i \in DOMAIN ctx.log :
                                    ctx.log[i].h = cfg.permissionMiddleware}
            IN  /\ ctx.handlers = chain
                /\ Len(ctx.log) = ran
                /\ \A i \in DOMAIN ctx.log :
                      ctx.log[i] = [pos |-> i, h |-> chain[i]]
                /\ \A i \in permissionAt :
                      /\ i = 3
                      /\ ctx.log[2].h = cfg.authMiddleware
                      /\ ~Rejects(cfg.authMiddleware, ctx.request)
                /\ ran < Len(chain) => IsAborted(ctx) /\ ~HandlerRan(ctx, d)

\* behind caller-supplied auth and permission hooks that let the request
\* pass, the first of two listed middlewares aborted: four elements ran, the
\* second listed middleware and the handler did not
C23_Witness ==
    \E d \in given :
        /\ Served /\ d.IsAuthProtected /\ Matches(d, ctx.request)
        /\ cfg.authMiddleware.fn = "authMiddleware"
        /\ cfg.permissionMiddleware # Nil
        /\ cfg.permissionMiddleware.fn = "permissionMiddleware"
        /\ Len(d.Middlewares) = 2
        /\ Len(ctx.handlers) = 6
        /\ Len(ctx.log) = 4
        /\ IsAborted(ctx)
        /\ ~HandlerRan(ctx, d)

(***************************************************************************)
(* C24: a route descriptor whose Method is not GET, POST, PUT or DELETE    *)
(* (PATCH, HEAD, OPTIONS, an empty or lower-case string) is silently       *)
(* skipped by RegisterHandlers: the registration does not fail, the other  *)
(* descriptors are registered, and a request with that method to           *)
(* "/api/v1" + Uri never reaches the descriptor's Handler or middlewares.  *)
(***************************************************************************)
\* the handler functions of a descriptor
FuncsOf(d) == {d.Handler} \cup Range(d.Middlewares)

\* the descriptor is registered: its method and path lead to a chain ending
\* with its middlewares and its Handler
IsRegistered(d) ==
    \E r \in engine.trees :
        /\ r.method = d.Method
        /\ r.path = RegisteredPath(d)
        /\ Len(r.handlers) > Len(d.Middlewares)
        /\ SubSeq(r.handlers, Len(r.handlers) - Len(d.Middlewares), Len(r.handlers))
              = d.Middlewares \o <<d.Handler>>

\* nothing of the descriptor is in the engine
IsSkipped(d) ==
    \A r \in engine.trees :
        /\ r.method # d.Method
        /\ FuncsOf(d) \cap Range(r.handlers) = {}

\* the served request did not reach a handler function of the descriptor
NotReached(c, d) ==
    /\ FuncsOf(d) \cap Range(c.handlers) = {}
    /\ \A i \in DOMAIN c.log : c.log[i].h \notin FuncsOf(d)

C24_OtherMethodSkipped ==
    phase # "new" =>
        /\ phase = "registered"
        /\ \A d \in given :
              IF d.Method \in RoutedMethods
              THEN IsRegistered(d)
              ELSE /\ IsSkipped(d)
                   /\ (Served /\ AsksFor(d, ctx.request)) => NotReached(ctx, d)
        /\ Cardinality(engine.trees) =
              Cardinality({d \in given : d.Method \in RoutedMethods})

\* a PATCH descriptor and a GET descriptor for "/a" were given; the PATCH
\* request for the path was answered by the no-route handler
C24_Witness ==
    \E d \in given, g \in given :
        /\ phase = "registered"
        /\ d.Method = MethodPatch
        /\ g.Method = MethodGet /\ g.Uri = d.Uri /\ IsRegistered(g)
        /\ Served /\ AsksFor(d, ctx.request)
        /\ ctx.status = StatusNotFound
        /\ ctx.log # <<>>
        /\ ctx.log[Len(ctx.log)].h.fn = "noRoute"

====
